---------------------------- MODULE Spec2Model ----------------------------
(***************************************************************************)
(* A model of tmux-sessions.py, the Alfred script filter that lists tmux   *)
(* sessions.  Strings are sequences of one-character strings, so that      *)
(* split, strip, lower, isdigit, int and the f-string formatting are       *)
(* computed character by character as Python computes them.  A character  *)
(* outside ASCII is written by its code point ("U+2022").                  *)
(***************************************************************************)
EXTENDS Integers, Sequences, FiniteSets, TLC

VARIABLES
    pc,                 \* position of the running function
    argv,               \* sys.argv[1:] : << >> or <<argument>>
    query,              \* main: query
    outcome,            \* what subprocess.run does in this run
    tmux_stdout,        \* result.stdout when the command ran to completion
    now,                \* datetime.now(), in whole seconds since the epoch
    sessions,           \* main: sessions
    filtered_sessions,  \* main: filtered_sessions
    items,              \* main: items
    exc,                \* the exception in flight inside main's try block
    out,                \* the documents printed on standard output, in order
    line,               \* parse_session_line: line
    parsed,             \* parse_session_line: the returned Optional[Session]
    timestamp,          \* format_time_ago: timestamp
    ago,                \* format_time_ago: the returned string
    name,               \* is_valid_session_name: name
    valid,              \* is_valid_session_name: the returned bool
    rank_sessions,      \* filter_and_sort_sessions: sessions
    rank_query,         \* filter_and_sort_sessions: query
    ranked              \* filter_and_sort_sessions: the returned list

vars == <<pc, argv, query, outcome, tmux_stdout, now, sessions,
          filtered_sessions, items, exc, out, line, parsed, timestamp, ago,
          name, valid, rank_sessions, rank_query, ranked>>

mainVars == <<argv, query, outcome, tmux_stdout, sessions,
              filtered_sessions, items, exc, out>>
parseVars == <<line, parsed>>
timeVars == <<timestamp, ago>>
nameVars == <<name, valid>>
rankVars == <<rank_sessions, rank_query, ranked>>

----------------------------------------------------------------------------
(* Bounds of the model. *)

\* longest numeric field of a generated session line
MaxFieldLen == 2
\* most delimiter-separated fields of a generated short line
MaxShortFields == 4
\* longest candidate session name given to is_valid_session_name
MaxNameLen == 3
\* most sessions in the list given to filter_and_sort_sessions
MaxSessions == 3
\* longest command-line argument given to main
MaxArgLen == 2
\* most session lines tmux prints
MaxLines == 2
\* format_time_ago: whole days, hours and minutes either side of now
MaxDays == 2
MaxHours == 2
MaxMinutes == 2

----------------------------------------------------------------------------
(* Python's str operations, on sequences of characters. *)

None == << >>
Some(x) == <<x>>

Digits == {"0", "1", "2", "3", "4", "5", "6", "7", "8", "9"}

DigitVal(c) ==
    CASE c = "0" -> 0 [] c = "1" -> 1 [] c = "2" -> 2 [] c = "3" -> 3
      [] c = "4" -> 4 [] c = "5" -> 5 [] c = "6" -> 6 [] c = "7" -> 7
      [] c = "8" -> 8 [] c = "9" -> 9

DigitChar(d) ==
    CASE d = 0 -> "0" [] d = 1 -> "1" [] d = 2 -> "2" [] d = 3 -> "3"
      [] d = 4 -> "4" [] d = 5 -> "5" [] d = 6 -> "6" [] d = 7 -> "7"
      [] d = 8 -> "8" [] d = 9 -> "9"

\* str.isspace() characters that a TLA+ string can hold
PyWhitespace == {" ", "\t", "\n", "\r", "\f"}

\* str.lower() of one character (ASCII letters; every other character of the
\* model is caseless)
LowerChar(c) ==
    CASE c = "A" -> "a" [] c = "B" -> "b" [] c = "C" -> "c" [] c = "D" -> "d"
      [] c = "E" -> "e" [] c = "F" -> "f" [] c = "G" -> "g" [] c = "H" -> "h"
      [] c = "I" -> "i" [] c = "J" -> "j" [] c = "K" -> "k" [] c = "L" -> "l"
      [] c = "M" -> "m" [] c = "N" -> "n" [] c = "O" -> "o" [] c = "P" -> "p"
      [] c = "Q" -> "q" [] c = "R" -> "r" [] c = "S" -> "s" [] c = "T" -> "t"
      [] c = "U" -> "u" [] c = "V" -> "v" [] c = "W" -> "w" [] c = "X" -> "x"
      [] c = "Y" -> "y" [] c = "Z" -> "z" [] OTHER -> c

\* s.lower()
PyLower(s) == [i \in 1..Len(s) |-> LowerChar(s[i])]

\* needle in hay
PyIn(needle, hay) ==
    \E i \in 0..(Len(hay) - Len(needle)) :
        SubSeq(hay, i + 1, i + Len(needle)) = needle

RECURSIVE LStrip(_)
LStrip(s) ==
    IF s # << >> /\ Head(s) \in PyWhitespace THEN LStrip(Tail(s)) ELSE s

RECURSIVE RStrip(_)
RStrip(s) ==
    IF s # << >> /\ s[Len(s)] \in PyWhitespace
    THEN RStrip(SubSeq(s, 1, Len(s) - 1))
    ELSE s

\* s.strip()
PyStrip(s) == RStrip(LStrip(s))

\* s.split(sep) for a one-character separator: never the empty list
RECURSIVE PySplit(_, _)
PySplit(s, sep) ==
    IF \E i \in 1..Len(s) : s[i] = sep
    THEN LET i == CHOOSE k \in 1..Len(s) :
                      s[k] = sep /\ \A j \in 1..(k - 1) : s[j] # sep
         IN  <<SubSeq(s, 1, i - 1)>> \o PySplit(SubSeq(s, i + 1, Len(s)), sep)
    ELSE <<s>>

\* sep.join(parts)
RECURSIVE PyJoin(_, _)
PyJoin(parts, sep) ==
    IF parts = << >> THEN << >>
    ELSE IF Len(parts) = 1 THEN parts[1]
    ELSE parts[1] \o <<sep>> \o PyJoin(Tail(parts), sep)

\* s.isdigit()
PyIsDigit(s) == s # << >> /\ \A i \in 1..Len(s) : s[i] \in Digits

\* the value of a non-empty string of decimal digits
RECURSIVE DecimalValue(_)
DecimalValue(s) ==
    IF s = << >> THEN 0
    ELSE 10 * DecimalValue(SubSeq(s, 1, Len(s) - 1)) + DigitVal(s[Len(s)])

\* int(s): surrounding whitespace is dropped, one sign is allowed, and a
\* string that is no integer literal raises ValueError (ok = FALSE)
PyInt(s) ==
    LET t == PyStrip(s)
        signed == t # << >> /\ Head(t) \in {"-", "+"}
        body == IF signed THEN Tail(t) ELSE t
    IN  IF PyIsDigit(body)
        THEN [ok |-> TRUE,
              val |-> IF signed /\ Head(t) = "-"
                      THEN 0 - DecimalValue(body)
                      ELSE DecimalValue(body)]
        ELSE [ok |-> FALSE, val |-> 0]

\* str(n) for an integer n
RECURSIVE NatStr(_)
NatStr(n) ==
    IF n < 10 THEN <<DigitChar(n)>>
    ELSE NatStr(n \div 10) \o <<DigitChar(n % 10)>>

PyStr(n) == IF n < 0 THEN <<"-">> \o NatStr(0 - n) ELSE NatStr(n)

----------------------------------------------------------------------------
(* parse_session_line *)

Session(n, w, c, a, t) ==
    [name |-> n, windows |-> w, created_timestamp |-> c,
     is_attached |-> a, activity_timestamp |-> t]

\* The mutant reads the window field where the code reads the creation field.
parse_session_line_SwappedFields(l) ==
    IF l = << >> THEN None
    ELSE LET parts == PySplit(l, "|")
         IN  IF Len(parts) < 5 THEN None
             ELSE IF ~PyIsDigit(parts[5]) /\ ~PyInt(parts[3]).ok THEN None
             ELSE Some(Session(
                    parts[1],
                    IF PyIsDigit(parts[2]) THEN PyInt(parts[2]).val ELSE 1,
                    IF PyIsDigit(parts[2]) THEN PyInt(parts[2]).val ELSE 0,
                    parts[4] = <<"1">>,
                    IF PyIsDigit(parts[5]) THEN PyInt(parts[5]).val
                    ELSE PyInt(parts[3]).val))

\* The ValueError of int(parts[2]) on the activity fallback is caught by the
\* except clause, which returns None for the whole line.
parse_session_line(l) ==
    IF l = << >> THEN None
    ELSE LET parts == PySplit(l, "|")
         IN  IF Len(parts) < 5 THEN None
             ELSE IF ~PyIsDigit(parts[5]) /\ ~PyInt(parts[3]).ok THEN None
             ELSE Some(Session(
                    parts[1],
                    IF PyIsDigit(parts[2]) THEN PyInt(parts[2]).val ELSE 1,
                    IF PyIsDigit(parts[3]) THEN PyInt(parts[3]).val ELSE 0,
                    parts[4] = <<"1">>,
                    IF PyIsDigit(parts[5]) THEN PyInt(parts[5]).val
                    ELSE PyInt(parts[3]).val))

----------------------------------------------------------------------------
(* format_time_ago *)

\* delta = datetime.now() - datetime.fromtimestamp(timestamp) is a timedelta,
\* normalised so that 0 <= delta.seconds < 86400 and delta.days carries the
\* sign.  Every timestamp of the model is within datetime's range, so the
\* except clause that returns "unknown" is not entered.
format_time_ago(ts, n) ==
    LET delta_days == (n - ts) \div 86400
        delta_seconds == (n - ts) % 86400
        hours == delta_seconds \div 3600
        minutes == delta_seconds \div 60
    IN  IF delta_days > 0 THEN PyStr(delta_days) \o <<"d", " ", "a", "g", "o">>
        ELSE IF hours > 0 THEN PyStr(hours) \o <<"h", " ", "a", "g", "o">>
        ELSE IF minutes > 0 THEN PyStr(minutes) \o <<"m", " ", "a", "g", "o">>
        ELSE <<"j", "u", "s", "t", " ", "n", "o", "w">>

----------------------------------------------------------------------------
(* Session: the derived display strings and the Alfred item *)

status_emoji(s) ==
    IF s.is_attached
    THEN <<"U+1F7E2", " ", "a", "t", "t", "a", "c", "h", "e", "d">>
    ELSE <<"U+26AA", " ", "d", "e", "t", "a", "c", "h", "e", "d">>

created_ago(s, n) == format_time_ago(s.created_timestamp, n)

activity_ago(s, n) == format_time_ago(s.activity_timestamp, n)

subtitle(s, n) ==
    status_emoji(s) \o <<" ", "U+2022", " ">> \o PyStr(s.windows)
        \o <<" ", "w", "i", "n", "d", "o", "w", "s", " ", "U+2022", " ",
             "c", "r", "e", "a", "t", "e", "d", " ">>
        \o created_ago(s, n)
        \o <<" ", "U+2022", " ", "a", "c", "t", "i", "v", "e", " ">>
        \o activity_ago(s, n)

\* The mutant leaves the detach action enabled for every session.
to_alfred_item_DetachAlwaysValid(s, n) ==
    [title |-> s.name,
     subtitle |-> subtitle(s, n),
     arg |-> s.name,
     mods |->
        [cmd |->
            [subtitle |-> <<"D", "e", "l", "e", "t", "e", " ", "s", "e", "s",
                            "s", "i", "o", "n", " ">> \o s.name,
             arg |-> <<"d", "e", "l", "e", "t", "e", ":">> \o s.name],
         ctrl |->
            [subtitle |-> <<"D", "e", "t", "a", "c", "h", " ", "f", "r", "o",
                            "m", " ", "s", "e", "s", "s", "i", "o", "n",
                            " ">> \o s.name,
             arg |-> <<"d", "e", "t", "a", "c", "h", ":">> \o s.name,
             valid |-> TRUE]]]

to_alfred_item(s, n) ==
    [title |-> s.name,
     subtitle |-> subtitle(s, n),
     arg |-> s.name,
     mods |->
        [cmd |->
            [subtitle |-> <<"D", "e", "l", "e", "t", "e", " ", "s", "e", "s",
                            "s", "i", "o", "n", " ">> \o s.name,
             arg |-> <<"d", "e", "l", "e", "t", "e", ":">> \o s.name],
         ctrl |->
            [subtitle |->
                IF s.is_attached
                THEN <<"D", "e", "t", "a", "c", "h", " ", "f", "r", "o", "m",
                       " ", "s", "e", "s", "s", "i", "o", "n", " ">> \o s.name
                ELSE <<"S", "e", "s", "s", "i", "o", "n", " ">> \o s.name
                       \o <<" ", "a", "l", "r", "e", "a", "d", "y", " ", "d",
                            "e", "t", "a", "c", "h", "e", "d">>,
             arg |-> <<"d", "e", "t", "a", "c", "h", ":">> \o s.name,
             valid |-> s.is_attached]]]

----------------------------------------------------------------------------
(* is_valid_session_name, create_session_prompt, create_empty_state_prompt *)

\* The mutant forgets the tab.
INVALID_SESSION_CHARS_NoTab == {".", ":", " ", "\n"}

INVALID_SESSION_CHARS == {".", ":", " ", "\n", "\t"}

is_valid_session_name(nm) ==
    nm # << >>
        /\ ~(\E char \in INVALID_SESSION_CHARS : PyIn(<<char>>, nm))

create_session_prompt(q) ==
    IF is_valid_session_name(q)
    THEN [title |-> <<"C", "r", "e", "a", "t", "e", " ", "n", "e", "w", " ",
                      "s", "e", "s", "s", "i", "o", "n", " ", "\"">> \o q
                        \o <<"\"">>,
          subtitle |-> <<"P", "r", "e", "s", "s", " ", "E", "n", "t", "e",
                         "r", " ", "t", "o", " ", "c", "r", "e", "a", "t",
                         "e", " ", "t", "h", "i", "s", " ", "t", "m", "u",
                         "x", " ", "s", "e", "s", "s", "i", "o", "n">>,
          arg |-> <<"c", "r", "e", "a", "t", "e", ":">> \o q,
          icon |-> [path |-> <<"i", "c", "o", "n", ".", "p", "n", "g">>]]
    ELSE [title |-> <<"I", "n", "v", "a", "l", "i", "d", " ", "s", "e", "s",
                      "s", "i", "o", "n", " ", "n", "a", "m", "e", " ",
                      "\"">> \o q \o <<"\"">>,
          subtitle |-> <<"S", "e", "s", "s", "i", "o", "n", " ", "n", "a",
                         "m", "e", "s", " ", "c", "a", "n", "n", "o", "t",
                         " ", "c", "o", "n", "t", "a", "i", "n", " ", "s",
                         "p", "a", "c", "e", "s", ",", " ", "d", "o", "t",
                         "s", ",", " ", "o", "r", " ", "c", "o", "l", "o",
                         "n", "s">>,
          valid |-> FALSE]

create_empty_state_prompt ==
    [title |-> <<"N", "o", " ", "t", "m", "u", "x", " ", "s", "e", "s", "s",
                 "i", "o", "n", "s", " ", "f", "o", "u", "n", "d">>,
     subtitle |-> <<"S", "t", "a", "r", "t", " ", "t", "y", "p", "i", "n",
                    "g", " ", "t", "o", " ", "c", "r", "e", "a", "t", "e",
                    " ", "a", " ", "n", "e", "w", " ", "s", "e", "s", "s",
                    "i", "o", "n">>,
     valid |-> FALSE]

----------------------------------------------------------------------------
(* filter_and_sort_sessions *)

\* ord(c)
Ord(c) ==
    CASE c = "a" -> 97 [] c = "b" -> 98 [] c = "c" -> 99 [] c = "d" -> 100
      [] c = "e" -> 101 [] c = "f" -> 102 [] c = "g" -> 103 [] c = "h" -> 104
      [] c = "i" -> 105 [] c = "j" -> 106 [] c = "k" -> 107 [] c = "l" -> 108
      [] c = "m" -> 109 [] c = "n" -> 110 [] c = "o" -> 111 [] c = "p" -> 112
      [] c = "q" -> 113 [] c = "r" -> 114 [] c = "s" -> 115 [] c = "t" -> 116
      [] c = "u" -> 117 [] c = "v" -> 118 [] c = "w" -> 119 [] c = "x" -> 120
      [] c = "y" -> 121 [] c = "z" -> 122 [] c = "A" -> 65 [] c = "B" -> 66
      [] c = "C" -> 67 [] c = "D" -> 68 [] c = "E" -> 69 [] c = "F" -> 70
      [] c = "G" -> 71 [] c = "H" -> 72 [] c = "I" -> 73 [] c = "J" -> 74
      [] c = "K" -> 75 [] c = "L" -> 76 [] c = "M" -> 77 [] c = "N" -> 78
      [] c = "O" -> 79 [] c = "P" -> 80 [] c = "Q" -> 81 [] c = "R" -> 82
      [] c = "S" -> 83 [] c = "T" -> 84 [] c = "U" -> 85 [] c = "V" -> 86
      [] c = "W" -> 87 [] c = "X" -> 88 [] c = "Y" -> 89 [] c = "Z" -> 90
      [] c = "0" -> 48 [] c = "1" -> 49 [] c = "2" -> 50 [] c = "3" -> 51
      [] c = "4" -> 52 [] c = "5" -> 53 [] c = "6" -> 54 [] c = "7" -> 55
      [] c = "8" -> 56 [] c = "9" -> 57 [] c = " " -> 32 [] c = "-" -> 45
      [] c = "." -> 46 [] c = ":" -> 58 [] c = "_" -> 95 [] c = "|" -> 124

\* a < b for two str values: by code point, a proper prefix first
RECURSIVE StrLess(_, _)
StrLess(a, b) ==
    IF b = << >> THEN FALSE
    ELSE IF a = << >> THEN TRUE
    ELSE IF Head(a) = Head(b) THEN StrLess(Tail(a), Tail(b))
    ELSE Ord(Head(a)) < Ord(Head(b))

\* The mutant orders older activity first.
SortKeyLess_OldestFirst(a, b) ==
    IF (~a.is_attached) # (~b.is_attached) THEN a.is_attached
    ELSE IF a.activity_timestamp # b.activity_timestamp
         THEN a.activity_timestamp < b.activity_timestamp
    ELSE StrLess(PyLower(a.name), PyLower(b.name))

\* key(a) < key(b) for the key (not s.is_attached, -s.activity_timestamp,
\* s.name.lower()): tuples compare element by element, False before True
SortKeyLess(a, b) ==
    IF (~a.is_attached) # (~b.is_attached) THEN a.is_attached
    ELSE IF (0 - a.activity_timestamp) # (0 - b.activity_timestamp)
         THEN (0 - a.activity_timestamp) < (0 - b.activity_timestamp)
    ELSE StrLess(PyLower(a.name), PyLower(b.name))

\* sorted(seq, key=...): stable, so an element goes after every element whose
\* key is not greater than its own
RECURSIVE InsertSorted(_, _)
InsertSorted(x, seq) ==
    IF seq = << >> THEN <<x>>
    ELSE IF SortKeyLess(x, seq[Len(seq)])
         THEN InsertSorted(x, SubSeq(seq, 1, Len(seq) - 1)) \o <<seq[Len(seq)]>>
         ELSE seq \o <<x>>

RECURSIVE PySorted(_)
PySorted(seq) ==
    IF seq = << >> THEN << >>
    ELSE InsertSorted(seq[Len(seq)], PySorted(SubSeq(seq, 1, Len(seq) - 1)))

\* The mutant compares the names as they are written.
filter_and_sort_sessions_CaseSensitive(ss, q) ==
    PySorted(SelectSeq(ss, LAMBDA s : q = << >> \/ PyIn(q, s.name)))

filter_and_sort_sessions(ss, q) ==
    PySorted(SelectSeq(ss,
        LAMBDA s : q = << >> \/ PyIn(PyLower(q), PyLower(s.name))))

----------------------------------------------------------------------------
(* get_tmux_sessions *)

\* What subprocess.run(..., check=True, timeout=5) does: it returns the
\* completed process, or raises CalledProcessError (nonzero exit),
\* TimeoutExpired, FileNotFoundError (no tmux on the PATH) or another OSError
\* such as PermissionError (a tmux that may not be executed).
Outcomes ==
    {"completed", "CalledProcessError", "TimeoutExpired", "FileNotFoundError",
     "PermissionError"}

\* the truthy results of parse_session_line over the lines, in order
RECURSIVE ParseLines(_)
ParseLines(lines) ==
    IF lines = << >> THEN << >>
    ELSE LET session == parse_session_line(Head(lines))
         IN  (IF session # None THEN <<session[1]>> ELSE << >>)
                 \o ParseLines(Tail(lines))

\* The mutant has no except clause for TimeoutExpired.
get_tmux_sessions_TimeoutEscapes(oc, so) ==
    IF oc = "completed"
    THEN [raised |-> "",
          ret |-> IF PyStrip(so) = << >> THEN << >>
                  ELSE ParseLines(PySplit(PyStrip(so), "\n"))]
    ELSE IF oc = "CalledProcessError" THEN [raised |-> "", ret |-> << >>]
    ELSE [raised |-> oc, ret |-> << >>]

\* raised = "" when the function returns; otherwise the exception that leaves
\* it: FileNotFoundError is re-raised, and an exception no except clause names
\* is not caught.
get_tmux_sessions(oc, so) ==
    IF oc = "completed"
    THEN [raised |-> "",
          ret |-> IF PyStrip(so) = << >> THEN << >>
                  ELSE ParseLines(PySplit(PyStrip(so), "\n"))]
    ELSE IF oc = "CalledProcessError" THEN [raised |-> "", ret |-> << >>]
    ELSE IF oc = "TimeoutExpired" THEN [raised |-> "", ret |-> << >>]
    ELSE IF oc = "FileNotFoundError" THEN [raised |-> oc, ret |-> << >>]
    ELSE [raised |-> oc, ret |-> << >>]

\* str(e) of the exception
ExceptionStr(e) ==
    IF e = "PermissionError"
    THEN <<"[", "E", "r", "r", "n", "o", " ", "1", "3", "]", " ", "P", "e",
           "r", "m", "i", "s", "s", "i", "o", "n", " ", "d", "e", "n", "i",
           "e", "d", ":", " ", "'", "t", "m", "u", "x", "'">>
    ELSE << >>

----------------------------------------------------------------------------
(* The inputs of a run of main: the argument, the clock, and what tmux does *)

\* all strings over the characters A of length at most n
Strings(A, n) == UNION {[1..k -> A] : k \in 0..n}

\* all sequences over the set S of length at most n
SeqsUpTo(S, n) == UNION {[1..k -> S] : k \in 0..n}

NowValues == {1700003600}

ArgChars == {"w", "W", " ", "."}

Argvs == {<< >>} \cup {<<a>> : a \in Strings(ArgChars, MaxArgLen)}

\* the sessions the tmux server may hold
LiveSessions ==
    {Session(n, 3, 1700000000, a, t) :
        n \in {<<"w">>, <<"W", "k">>}, a \in BOOLEAN,
        t \in {1700000000, 1700003540}}

\* one line of tmux list-sessions -F TMUX_FORMAT
TMUX_FORMAT(s) ==
    PyJoin(<<s.name, PyStr(s.windows), PyStr(s.created_timestamp),
             IF s.is_attached THEN <<"1">> ELSE <<"0">>,
             PyStr(s.activity_timestamp)>>, "|")

\* a line that is no session line
StrayLines == {<<"n", "o", " ", "s", "e", "r", "v", "e", "r">>}

RECURSIVE Lines(_)
Lines(ls) == IF ls = << >> THEN << >> ELSE Head(ls) \o <<"\n">> \o Lines(Tail(ls))

\* what tmux prints: each line ends with a newline
TmuxStdouts ==
    {Lines(ls) :
        ls \in SeqsUpTo({TMUX_FORMAT(s) : s \in LiveSessions} \cup StrayLines,
                        MaxLines)}

----------------------------------------------------------------------------
(* main *)

IdleMain ==
    /\ argv = << >> /\ query = << >> /\ outcome = "completed"
    /\ tmux_stdout = << >> /\ sessions = << >> /\ filtered_sessions = << >>
    /\ items = << >> /\ exc = "" /\ out = << >>
IdleParse == line = << >> /\ parsed = None
IdleTime == timestamp = 0 /\ ago = << >>
IdleName == name = << >> /\ valid = FALSE
IdleRank == rank_sessions = << >> /\ rank_query = << >> /\ ranked = << >>

Init ==
    /\ pc = "main"
    /\ argv \in Argvs
    /\ now \in NowValues
    /\ outcome \in Outcomes
    /\ tmux_stdout \in (IF outcome = "completed" THEN TmuxStdouts ELSE {<< >>})
    /\ query = << >> /\ sessions = << >> /\ filtered_sessions = << >>
    /\ items = << >> /\ exc = "" /\ out = << >>
    /\ IdleParse /\ IdleTime /\ IdleName /\ IdleRank

others == <<now, line, parsed, timestamp, ago, name, valid, rank_sessions,
            rank_query, ranked>>

\* The mutant takes the argument as it is typed.
ReadQuery_NoStrip ==
    /\ pc = "main"
    /\ query' = IF Len(argv) > 0 THEN argv[1] ELSE << >>
    /\ pc' = "get_tmux_sessions"
    /\ UNCHANGED <<argv, outcome, tmux_stdout, sessions, filtered_sessions,
                   items, exc, out, others>>

\* query = sys.argv[1].strip() if len(sys.argv) > 1 else ""
ReadQuery ==
    /\ pc = "main"
    /\ query' = IF Len(argv) > 0 THEN PyStrip(argv[1]) ELSE << >>
    /\ pc' = "get_tmux_sessions"
    /\ UNCHANGED <<argv, outcome, tmux_stdout, sessions, filtered_sessions,
                   items, exc, out, others>>

\* sessions = get_tmux_sessions(), or the exception it lets through
GetSessions ==
    /\ pc = "get_tmux_sessions"
    /\ LET r == get_tmux_sessions(outcome, tmux_stdout)
       IN  IF r.raised = ""
           THEN sessions' = r.ret /\ exc' = exc /\ pc' = "filter_and_sort_sessions"
           ELSE sessions' = sessions /\ exc' = r.raised /\ pc' = "except"
    /\ UNCHANGED <<argv, query, outcome, tmux_stdout, filtered_sessions,
                   items, out, others>>

\* filtered_sessions = filter_and_sort_sessions(sessions, query)
FilterAndSort ==
    /\ pc = "filter_and_sort_sessions"
    /\ filtered_sessions' = filter_and_sort_sessions(sessions, query)
    /\ pc' = "items"
    /\ UNCHANGED <<argv, query, outcome, tmux_stdout, sessions, items, exc,
                   out, others>>

\* items = [s.to_alfred_item() ...], or the one fallback item
BuildItems ==
    /\ pc = "items"
    /\ LET its == [i \in 1..Len(filtered_sessions) |->
                      to_alfred_item(filtered_sessions[i], now)]
       IN  items' = IF its = << >>
                    THEN IF query # << >>
                         THEN <<create_session_prompt(query)>>
                         ELSE <<create_empty_state_prompt>>
                    ELSE its
    /\ pc' = "print"
    /\ UNCHANGED <<argv, query, outcome, tmux_stdout, sessions,
                   filtered_sessions, exc, out, others>>

\* print(json.dumps({"items": items}, ensure_ascii=False)): the document is
\* kept as the value that is serialised
PrintItems ==
    /\ pc = "print"
    /\ out' = Append(out, [items |-> items])
    /\ pc' = "done"
    /\ UNCHANGED <<argv, query, outcome, tmux_stdout, sessions,
                   filtered_sessions, items, exc, others>>

\* except FileNotFoundError
ExceptFileNotFound ==
    /\ pc = "except"
    /\ exc = "FileNotFoundError"
    /\ out' = Append(out,
         [items |->
            <<[title |-> <<"t", "m", "u", "x", " ", "n", "o", "t", " ", "f",
                           "o", "u", "n", "d">>,
               subtitle |-> <<"I", "n", "s", "t", "a", "l", "l", " ", "t",
                              "m", "u", "x", ":", " ", "b", "r", "e", "w",
                              " ", "i", "n", "s", "t", "a", "l", "l", " ",
                              "t", "m", "u", "x">>,
               valid |-> FALSE]>>])
    /\ pc' = "done"
    /\ UNCHANGED <<argv, query, outcome, tmux_stdout, sessions,
                   filtered_sessions, items, exc, others>>

\* The mutant swallows the exception without printing.
ExceptException_Silent ==
    /\ pc = "except"
    /\ exc # "FileNotFoundError"
    /\ pc' = "done"
    /\ UNCHANGED <<argv, query, outcome, tmux_stdout, sessions,
                   filtered_sessions, items, exc, out, others>>

\* except Exception as e
ExceptException ==
    /\ pc = "except"
    /\ exc # "FileNotFoundError"
    /\ out' = Append(out,
         [items |->
            <<[title |-> <<"U", "n", "e", "x", "p", "e", "c", "t", "e", "d",
                           " ", "e", "r", "r", "o", "r">>,
               subtitle |-> ExceptionStr(exc),
               valid |-> FALSE]>>])
    /\ pc' = "done"
    /\ UNCHANGED <<argv, query, outcome, tmux_stdout, sessions,
                   filtered_sessions, items, exc, others>>

Next ==
    \/ ReadQuery
    \/ GetSessions
    \/ FilterAndSort
    \/ BuildItems
    \/ PrintItems
    \/ ExceptFileNotFound
    \/ ExceptException

Spec == Init /\ [][Next]_vars

----------------------------------------------------------------------------
(* parse_session_line on its own *)

ParseNumChars == {"1", "7", "-"}

ParseNumFields == Strings(ParseNumChars, MaxFieldLen)

ParseNameFields == {<<"w">>, <<"W", "k">>}

ParseFlagFields == {<<"1">>, <<"0">>, <<"2">>}

ParseShortFields == {<< >>, <<"7">>, <<"w">>}

\* the lines of five fields whose numeric fields are drawn from nums
FiveFieldLines(nums) ==
    {PyJoin(<<n, w, c, f, a>>, "|") :
        n \in ParseNameFields, w \in nums, c \in nums,
        f \in ParseFlagFields, a \in nums}

ShortLines ==
    {PyJoin(fs, "|") : fs \in SeqsUpTo(ParseShortFields, MaxShortFields)}

LongLines ==
    {PyJoin(<<<<"w">>, <<"1">>, <<"7">>, <<"1">>, <<"7">>, f>>, "|") :
        f \in ParseShortFields}

InitParse ==
    /\ pc = "parse_session_line"
    /\ line \in FiveFieldLines(ParseNumFields) \cup ShortLines \cup LongLines
    /\ parsed = None
    /\ now \in NowValues
    /\ IdleMain /\ IdleTime /\ IdleName /\ IdleRank

ParseLine ==
    /\ pc = "parse_session_line"
    /\ parsed' = parse_session_line(line)
    /\ pc' = "done"
    /\ UNCHANGED <<line, now, mainVars, timeVars, nameVars, rankVars>>

NextParse == ParseLine

SpecParse == InitParse /\ [][NextParse]_vars

----------------------------------------------------------------------------
(* format_time_ago on its own *)

\* timestamps up to MaxDays days either side of now, near the unit boundaries
Timestamps(n) ==
    {n - (d * 86400 + h * 3600 + m * 60 + s) :
        d \in (0 - MaxDays)..MaxDays, h \in (0..MaxHours) \cup {23},
        m \in (0..MaxMinutes) \cup {59}, s \in {0, 1, 59}}

InitTime ==
    /\ pc = "format_time_ago"
    /\ now \in NowValues
    /\ timestamp \in Timestamps(now)
    /\ ago = << >>
    /\ IdleMain /\ IdleParse /\ IdleName /\ IdleRank

FormatTime ==
    /\ pc = "format_time_ago"
    /\ ago' = format_time_ago(timestamp, now)
    /\ pc' = "done"
    /\ UNCHANGED <<timestamp, now, mainVars, parseVars, nameVars, rankVars>>

NextTime == FormatTime

SpecTime == InitTime /\ [][NextTime]_vars

----------------------------------------------------------------------------
(* is_valid_session_name on its own *)

NameChars == {" ", "\t", "\n", ".", ":", "a", "-"}

InitName ==
    /\ pc = "is_valid_session_name"
    /\ name \in Strings(NameChars, MaxNameLen)
    /\ valid = FALSE
    /\ now \in NowValues
    /\ IdleMain /\ IdleParse /\ IdleTime /\ IdleRank

ValidateName ==
    /\ pc = "is_valid_session_name"
    /\ valid' = is_valid_session_name(name)
    /\ pc' = "done"
    /\ UNCHANGED <<name, now, mainVars, parseVars, timeVars, rankVars>>

NextName == ValidateName

SpecName == InitName /\ [][NextName]_vars

----------------------------------------------------------------------------
(* filter_and_sort_sessions on its own *)

RankSessions ==
    {Session(n, 1, 0, a, t) :
        n \in {<<"a", "b">>, <<"A", "b">>, <<"b">>}, a \in BOOLEAN,
        t \in {5, 9}}

RankQueries == {<< >>, <<"a">>, <<"B">>, <<"a", "B">>, <<"c">>}

InitRank ==
    /\ pc = "filter_and_sort_sessions"
    /\ rank_sessions \in SeqsUpTo(RankSessions, MaxSessions)
    /\ rank_query \in RankQueries
    /\ ranked = << >>
    /\ now \in NowValues
    /\ IdleMain /\ IdleParse /\ IdleTime /\ IdleName

Rank ==
    /\ pc = "filter_and_sort_sessions"
    /\ ranked' = filter_and_sort_sessions(rank_sessions, rank_query)
    /\ pc' = "done"
    /\ UNCHANGED <<rank_sessions, rank_query, now, mainVars, parseVars,
                   timeVars, nameVars>>

NextRank == Rank

SpecRank == InitRank /\ [][NextRank]_vars

----------------------------------------------------------------------------
(* Vocabulary of the properties *)

\* an item, or a modifier of an item, is enabled unless it says valid = false
Actionable(x) == IF "valid" \in DOMAIN x THEN x.valid ELSE TRUE

HasPrefix(s, p) == Len(s) >= Len(p) /\ SubSeq(s, 1, Len(p)) = p

IsSeq(x) == DOMAIN x = 1..Len(x)

\* a wrapper object whose one field is a list of items, each with a title
WellFormedDocument(doc) ==
    /\ DOMAIN doc = {"items"}
    /\ IsSeq(doc.items)
    /\ \A i \in 1..Len(doc.items) : "title" \in DOMAIN doc.items[i]

\* an item made from a session carries the secondary actions; a fallback
\* item carries none
IsSessionItem(item) == "mods" \in DOMAIN item

ForbiddenNameChars == {" ", "\t", "\n", ".", ":"}

ValidName(s) ==
    Len(s) > 0 /\ \A i \in 1..Len(s) : s[i] \notin ForbiddenNameChars

\* q occurs in n when the case of letters is ignored
ContainsIgnoringCase(q, n) ==
    \E off \in 0..(Len(n) - Len(q)) :
        \A k \in 1..Len(q) : LowerChar(q[k]) = LowerChar(n[off + k])

\* the number of delimiter-separated fields of a line
FieldCount(l) == 1 + Cardinality({i \in 1..Len(l) : l[i] = "|"})

\* digits only
UnsignedLiteral(s) == Len(s) > 0 /\ \A i \in 1..Len(s) : s[i] \in Digits

\* digits, with or without a minus sign in front
SignedLiteral(s) ==
    \/ UnsignedLiteral(s)
    \/ Len(s) > 1 /\ s[1] = "-" /\ UnsignedLiteral(Tail(s))

LiteralValue(s) ==
    IF s[1] = "-" THEN 0 - DecimalValue(Tail(s)) ELSE DecimalValue(s)

Count(seq, x) == Cardinality({i \in 1..Len(seq) : seq[i] = x})

Range(seq) == {seq[i] : i \in 1..Len(seq)}

Returned == pc \notin {"main", "get_tmux_sessions"}

----------------------------------------------------------------------------
(* C1 *)

\* C1: every run of main writes exactly one well-formed document on standard
\* output, on every path (sessions listed, none, nonzero exit, timeout, tmux
\* missing, any other failure): never more than one document is written, no
\* failure in flight is without a handler, nothing is written before the end,
\* and at the end exactly one document has been written.
C1_ExactlyOneDocument ==
    /\ Len(out) <= 1
    /\ pc = "except" => exc # ""
    /\ pc # "done" => out = << >>
    /\ pc = "done" => Len(out) = 1 /\ WellFormedDocument(out[1])

\* a run that ended through the handler of unexpected failures
C1_Witness ==
    pc = "done" /\ exc = "PermissionError" /\ Len(out) = 1

----------------------------------------------------------------------------
(* C2 *)

\* C2, as claimed: get_tmux_sessions returns the empty list on a nonzero exit
\* and on a timeout, the only failure that ever leaves it is the missing
\* executable, and that one ends as a single item with valid = false.
C2_OnlyMissingToolCrosses ==
    /\ Returned /\ outcome \in {"CalledProcessError", "TimeoutExpired"}
           => exc = "" /\ sessions = << >>
    /\ exc \in {"", "FileNotFoundError"}
    /\ pc = "done" /\ exc = "FileNotFoundError"
           => /\ Len(out) = 1 /\ Len(out[1].items) = 1
              /\ ~Actionable(out[1].items[1])

\* C2, amended: get_tmux_sessions returns the empty list on a nonzero exit and
\* on a timeout; every other failure to run the command leaves it, the missing
\* executable and any other one (a permission error) alike.  The missing
\* executable ends as the single item "tmux not found" with valid = false, any
\* other one as the single item "Unexpected error" with valid = false.
C2_LaunchFailuresCross ==
    /\ Returned /\ outcome \in {"CalledProcessError", "TimeoutExpired"}
           => exc = "" /\ sessions = << >>
    /\ Returned /\ outcome \notin {"completed", "CalledProcessError",
                                   "TimeoutExpired"}
           => exc = outcome
    /\ exc # "" => exc = outcome /\ outcome \notin {"completed",
                       "CalledProcessError", "TimeoutExpired"}
    /\ pc = "done" /\ exc # ""
           => /\ Len(out) = 1 /\ Len(out[1].items) = 1
              /\ ~Actionable(out[1].items[1])
              /\ out[1].items[1].title =
                    IF exc = "FileNotFoundError"
                    THEN <<"t", "m", "u", "x", " ", "n", "o", "t", " ", "f",
                           "o", "u", "n", "d">>
                    ELSE <<"U", "n", "e", "x", "p", "e", "c", "t", "e", "d",
                           " ", "e", "r", "r", "o", "r">>

\* a run in which tmux is missing, ended
C2_Witness ==
    pc = "done" /\ outcome = "FileNotFoundError" /\ exc = "FileNotFoundError"
        /\ Len(out) = 1

----------------------------------------------------------------------------
(* C5 *)

\* C5: when no session is left after ranking, exactly one item is emitted,
\* chosen by the trimmed query: a valid name gives an actionable item with arg
\* "create:" + query, an invalid one an item with valid = false reporting an
\* invalid name, the empty query the item "No tmux sessions found" with
\* valid = false; an argument of whitespace only counts as the empty query.
C5_EmptyListFallback ==
    pc = "done" /\ exc = "" /\ filtered_sessions = << >> =>
        LET q == IF Len(argv) > 0 THEN PyStrip(argv[1]) ELSE << >>
            blank == Len(argv) = 0
                        \/ \A i \in 1..Len(argv[1]) : argv[1][i] \in PyWhitespace
            its == out[1].items
        IN  /\ Len(its) = 1
            /\ blank <=> q = << >>
            /\ ~blank /\ ValidName(q)
                 => /\ Actionable(its[1])
                    /\ its[1].arg = <<"c", "r", "e", "a", "t", "e", ":">> \o q
            /\ ~blank /\ ~ValidName(q)
                 => /\ ~Actionable(its[1])
                    /\ HasPrefix(its[1].title,
                          <<"I", "n", "v", "a", "l", "i", "d", " ", "s", "e",
                            "s", "s", "i", "o", "n", " ", "n", "a", "m", "e">>)
            /\ blank
                 => /\ ~Actionable(its[1])
                    /\ its[1].title =
                          <<"N", "o", " ", "t", "m", "u", "x", " ", "s", "e",
                            "s", "s", "i", "o", "n", "s", " ", "f", "o", "u",
                            "n", "d">>

\* a run given an argument of whitespace only, with no session, ended
C5_Witness ==
    /\ pc = "done" /\ exc = "" /\ filtered_sessions = << >>
    /\ Len(argv) > 0 /\ Len(argv[1]) > 0
    /\ \A i \in 1..Len(argv[1]) : argv[1][i] \in PyWhitespace
    /\ Len(out) = 1

----------------------------------------------------------------------------
(* C6 *)

\* C6: a non-empty ranked list gives one item per session, in ranked order:
\* title and arg are the session name, the cmd action has arg "delete:" + name
\* and is always enabled, the ctrl action has arg "detach:" + name and is
\* enabled exactly when the session is attached.
C6_OneItemPerSession ==
    pc = "done" /\ exc = "" /\ filtered_sessions # << >> =>
        LET its == out[1].items
        IN  /\ Len(its) = Len(filtered_sessions)
            /\ \A i \in 1..Len(its) :
                 LET s == filtered_sessions[i]
                 IN  /\ its[i].title = s.name
                     /\ its[i].arg = s.name
                     /\ Actionable(its[i])
                     /\ DOMAIN its[i].mods = {"cmd", "ctrl"}
                     /\ its[i].mods.cmd.arg =
                            <<"d", "e", "l", "e", "t", "e", ":">> \o s.name
                     /\ Actionable(its[i].mods.cmd)
                     /\ its[i].mods.ctrl.arg =
                            <<"d", "e", "t", "a", "c", "h", ":">> \o s.name
                     /\ Actionable(its[i].mods.ctrl) <=> s.is_attached

\* a run that listed an attached and a detached session, ended
C6_Witness ==
    /\ pc = "done" /\ exc = "" /\ Len(out) = 1
    /\ Len(filtered_sessions) = 2
    /\ filtered_sessions[1].is_attached /\ ~filtered_sessions[2].is_attached

----------------------------------------------------------------------------
(* C10 *)

\* C10: the item list of every document is non-empty, and it is either session
\* items only or exactly one fallback item; a "create:" item is emitted only
\* for a query that is a valid name and occurs, ignoring case, in no listed
\* session's name, so it never names a session that is listed.
C10_CreateOnlyForNewName ==
    pc = "done" =>
        LET its == out[1].items
        IN  /\ Len(its) > 0
            /\ \/ \A i \in 1..Len(its) : IsSessionItem(its[i])
               \/ Len(its) = 1 /\ ~IsSessionItem(its[1])
            /\ \A i \in 1..Len(its) :
                 ~IsSessionItem(its[i]) /\ "arg" \in DOMAIN its[i]
                   => /\ its[i].arg = <<"c", "r", "e", "a", "t", "e", ":">> \o query
                      /\ ValidName(query)
                      /\ \A k \in 1..Len(sessions) :
                           /\ ~ContainsIgnoringCase(query, sessions[k].name)
                           /\ PyLower(sessions[k].name) # PyLower(query)

\* a run that offered to create a session while other sessions were listed
C10_Witness ==
    /\ pc = "done" /\ exc = "" /\ Len(out) = 1
    /\ sessions # << >>
    /\ Len(out[1].items) = 1
    /\ "arg" \in DOMAIN out[1].items[1]
    /\ HasPrefix(out[1].items[1].arg, <<"c", "r", "e", "a", "t", "e", ":">>)

----------------------------------------------------------------------------
(* C3, C8 *)

\* C3: a line of at least five fields always gives a Session, whatever numeric
\* fields are malformed: windows = 1 for a window field that is no
\* non-negative integer literal, created_timestamp = 0 for an invalid creation
\* field, activity_timestamp = the resolved created_timestamp for an invalid
\* activity field.
C3_DefaultsNeverDropLine ==
    pc = "done" /\ FieldCount(line) >= 5 =>
        /\ parsed # None
        /\ LET f == PySplit(line, "|")
               s == parsed[1]
           IN  /\ ~UnsignedLiteral(f[2]) => s.windows = 1
               /\ ~SignedLiteral(f[3]) => s.created_timestamp = 0
               /\ ~SignedLiteral(f[5])
                    => s.activity_timestamp = s.created_timestamp

\* C8, as claimed: the empty line and a line of fewer than five fields give
\* None; five fields joined (a name, a non-negative integer window count, an
\* integer creation time, a flag "1" or "0", an integer activity time) give the
\* Session of exactly those values.
C8_RoundTripSignedIntegers ==
    pc = "done" =>
        /\ line = << >> \/ FieldCount(line) < 5 => parsed = None
        /\ FieldCount(line) = 5 =>
             LET f == PySplit(line, "|")
             IN  UnsignedLiteral(f[2]) /\ SignedLiteral(f[3])
                   /\ f[4] \in {<<"1">>, <<"0">>} /\ SignedLiteral(f[5])
                 => parsed = Some(Session(f[1], LiteralValue(f[2]),
                                          LiteralValue(f[3]), f[4] = <<"1">>,
                                          LiteralValue(f[5])))

\* C8, amended: the same, for a creation time and an activity time written
\* with decimal digits only (no sign).
C8_RoundTripDigitFields ==
    pc = "done" =>
        /\ line = << >> \/ FieldCount(line) < 5 => parsed = None
        /\ FieldCount(line) = 5 =>
             LET f == PySplit(line, "|")
             IN  UnsignedLiteral(f[2]) /\ UnsignedLiteral(f[3])
                   /\ f[4] \in {<<"1">>, <<"0">>} /\ UnsignedLiteral(f[5])
                 => parsed = Some(Session(f[1], LiteralValue(f[2]),
                                          LiteralValue(f[3]), f[4] = <<"1">>,
                                          LiteralValue(f[5])))

\* the line "Wk|17|71|1|7", parsed
C8_Witness ==
    /\ pc = "done"
    /\ line = <<"W", "k", "|", "1", "7", "|", "7", "1", "|", "1", "|", "7">>
    /\ parsed = Some(Session(<<"W", "k">>, 17, 71, TRUE, 7))

----------------------------------------------------------------------------
(* C7 *)

\* C7: for every timestamp, later than now included, format_time_ago gives
\* "{N}d ago" for N >= 1 whole days elapsed, else "{N}h ago" for N >= 1 whole
\* hours elapsed, else "{N}m ago" for N >= 1 whole minutes elapsed, else
\* "just now".
C7_LargestWholeUnitElapsed ==
    pc = "done" =>
        LET elapsed == now - timestamp
        IN  ago = IF elapsed >= 86400
                  THEN PyStr(elapsed \div 86400) \o <<"d", " ", "a", "g", "o">>
                  ELSE IF elapsed >= 3600
                  THEN PyStr(elapsed \div 3600) \o <<"h", " ", "a", "g", "o">>
                  ELSE IF elapsed >= 60
                  THEN PyStr(elapsed \div 60) \o <<"m", " ", "a", "g", "o">>
                  ELSE <<"j", "u", "s", "t", " ", "n", "o", "w">>

----------------------------------------------------------------------------
(* C9 *)

\* C9: is_valid_session_name returns a boolean for every string, and returns
\* true exactly for a non-empty string with no space, tab, newline, period or
\* colon.
C9_ValidIffNoForbiddenChar ==
    pc = "done" =>
        /\ valid \in BOOLEAN
        /\ valid <=> ValidName(name)

\* a name with a tab in it, rejected
C9_Witness ==
    pc = "done" /\ ~valid /\ name = <<"a", "\t", "a">>

----------------------------------------------------------------------------
(* C4 *)

\* C4: the result of filter_and_sort_sessions holds exactly the sessions whose
\* name contains the query ignoring case (all of them for the empty query);
\* every attached session comes before every detached one, sessions of equal
\* attachment are in non-increasing activity_timestamp, and sessions equal in
\* both are in case-insensitive order of name.
C4_FilteredAndRanked ==
    pc = "done" =>
        /\ \A x \in Range(rank_sessions) \cup Range(ranked) :
             Count(ranked, x) =
                IF rank_query = << >> \/ ContainsIgnoringCase(rank_query, x.name)
                THEN Count(rank_sessions, x) ELSE 0
        /\ \A i \in 1..Len(ranked) : \A j \in (i + 1)..Len(ranked) :
             LET a == ranked[i]
                 b == ranked[j]
             IN  /\ b.is_attached => a.is_attached
                 /\ a.is_attached = b.is_attached
                      => a.activity_timestamp >= b.activity_timestamp
                 /\ a.is_attached = b.is_attached
                      /\ a.activity_timestamp = b.activity_timestamp
                      => ~StrLess(PyLower(b.name), PyLower(a.name))

\* an attached session with older activity ranked before a detached one with
\* newer activity, a third session filtered out
C4_Witness ==
    /\ pc = "done"
    /\ Len(ranked) = 2 /\ Len(rank_sessions) = 3
    /\ ranked[1].is_attached /\ ~ranked[2].is_attached
    /\ ranked[1].activity_timestamp < ranked[2].activity_timestamp

============================================================================
